---- MODULE Spec2Model ----
(***************************************************************************)
(* Model of lighthouse-core/lib/asset-saver.js: prepareAssets and          *)
(* saveAssets, the promise chain they build over the passes of an          *)
(* artifacts bundle, the object heap the traces live in (so that a shallow *)
(* copy and a deep copy are different things), the disk and the log.       *)
(***************************************************************************)
EXTENDS Integers, Sequences, FiniteSets, TLC

VARIABLES
  traceKeys,   \* insertion order of the keys of artifacts.traces
  traces,      \* artifacts.traces: pass name -> trace object (its fields)
  heap,        \* array objects: reference -> sequence of events
  audits,      \* the audits argument, Null when absent
  entry,       \* which exported function the caller invoked
  pc,          \* position of the promise chain
  passNames,   \* const passNames of prepareAssets
  assets,      \* const assets of prepareAssets
  next,        \* index of the next link of the reduce chain to run
  pending,     \* indices whose requestScreenshots promise is not settled
  prepResult,  \* the promise prepareAssets returned
  failure,     \* reason the returned promise rejected with
  wpos,        \* number of writeFileSync calls that returned in saveAssets
  disk,        \* file system: path -> content
  io,          \* writeFileSync and log.log calls, in program order
  calls,       \* pass names requestScreenshots was called for, in order
  returned,    \* pass name -> screenshots its retrieval resolved with
  synth,       \* generateFakeEvents calls: <<pass name, events returned>>
  orig         \* heap at the time of the invocation

vars == <<traceKeys, traces, heap, audits, entry, pc, passNames, assets, next,
          pending, prepResult, failure, wpos, disk, io, calls, returned,
          synth, orig>>

\* ---------------------------------------------------------------- bounds
MaxPasses == 2

\* ---------------------------------------------------------------- inputs
Null == "null"
\* The promise prepareAssets returns: its state and the value it resolved with.
Unsettled == [state |-> "pending", value |-> <<>>]
Rejected == [state |-> "rejected", value |-> <<>>]
Resolved(v) == [state |-> "resolved", value |-> v]
NoFailure == "none"

PassNamePool == {"defaultPass", "offlinePass", "redirectPass"}

\* Injective sequences of pass names: the key orders of artifacts.traces.
RECURSIVE KeyOrders(_)
KeyOrders(n) ==
  IF n = 0 THEN {<<>>}
  ELSE LET shorter == KeyOrders(n - 1)
       IN shorter \cup
          {Append(s, p) : s \in {t \in shorter : Len(t) = n - 1},
                          p \in PassNamePool}

Range(s) == {s[i] : i \in 1..Len(s)}

IsInjective(s) == \A i, j \in 1..Len(s) : s[i] = s[j] => i = j

\* Events a trace holds before the invocation, tagged with the pass.
TraceEvent(pass, n) == [cat |-> pass, name |-> "navigationStart", ts |-> n]

OrigEvents(pass, len) == [k \in 1..len |-> TraceEvent(pass, k)]

OrigLens == {0, 2}

\* Values the requestScreenshots capability can resolve with.
ScreenshotSeqs ==
  { <<>>,
    <<[timestamp |-> 1000, datauri |-> "data:x"]>>,
    <<[timestamp |-> 2000, datauri |-> "data:y"],
      [timestamp |-> 1000, datauri |-> "data:x"]>> }

\* Values new Metrics(...).generateFakeEvents() can return. The class lives
\* in lib/traces/pwmetrics-events.js; asset-saver.js only calls it.
FakeEventSeqs ==
  { <<>>,
    <<[cat |-> "fake", name |-> "ttfcp", ts |-> 1]>>,
    <<[cat |-> "fake", name |-> "ttfmp", ts |-> 2],
      [cat |-> "fake", name |-> "ttfcp", ts |-> 1]>> }

\* The call can also throw: a failing metrics-synthesis collaborator is one of
\* the failures the pipeline has to propagate.
GenerateFakeEventsCanThrow == TRUE

pathWithBasename == "out/run"

\* ------------------------------------------------------- pure functions
\* screenshotDump: the document embeds JSON.stringify(screenshots).
screenshotDump(screenshots) ==
  [kind |-> "html", title |-> "screenshots", shots |-> screenshots]

\* Object.assign({}, trace): a new object with the same field values, so the
\* traceEvents field of the copy is the reference the original holds.
ObjectAssign(trace) == [traceEvents |-> trace.traceEvents]

\* unshift in place of push: the new events go before the old ones.
ArrayUnshift(h, ref, evts) == [h EXCEPT ![ref] = evts \o h[ref]]

\* traceData.traceEvents.push(...evts), on the array the reference names.
ArrayPush(h, ref, evts) == [h EXCEPT ![ref] = h[ref] \o evts]

\* The test on audits left out.
AlwaysSynthesize(a) == TRUE

\* if (audits)
ShouldSynthesize(a) == a # Null

\* unshift in place of push: the newest asset goes to the front.
UnshiftAsset(list, traceData, html) ==
  <<[traceData |-> traceData, html |-> html]>> \o list

\* assets.push({traceData, html})
PushAsset(list, traceData, html) ==
  Append(list, [traceData |-> traceData, html |-> html])

\* JSON.stringify(traceData, null, 2): the text holds the events the
\* referenced array has when the call is made.
JSONStringify(h, traceData) ==
  [kind |-> "json", traceEvents |-> h[traceData.traceEvents]]

traceFilename(base, index) == <<base, index, ".trace.json">>

screenshotsFilename(base, index) == <<base, index, ".screenshots.html">>

Paths ==
  {traceFilename(pathWithBasename, i) : i \in 0..MaxPasses} \cup
  {screenshotsFilename(pathWithBasename, i) : i \in 0..MaxPasses}

Absent == [kind |-> "absent"]
Stale == [kind |-> "stale"]

\* appendFileSync in place of writeFileSync: an existing file keeps its
\* old content in front of the new.
AppendFileSync(d, path, data) ==
  [d EXCEPT ![path] = IF d[path] = Absent THEN data
                       ELSE [kind |-> "appended", old |-> d[path], new |-> data]]

\* fs.writeFileSync(path, data): the file's content becomes data.
WriteFileSync(d, path, data) == [d EXCEPT ![path] = data]

WriteEvt(path) == [op |-> "write", path |-> path]
WriteFailedEvt(path) == [op |-> "writeFailed", path |-> path]
LogEvt(path) == [op |-> "log", path |-> path]

\* The log call left out.
LogSkipped(trail, path) == trail

\* log.log('... saved to disk', filename)
LogSaved(trail, path) == Append(trail, LogEvt(path))

\* ------------------------------------------------------------------ Init
Init ==
  /\ traceKeys \in {s \in KeyOrders(MaxPasses) : IsInjective(s)}
  /\ \E lens \in [Range(traceKeys) -> OrigLens] :
       /\ traces = [p \in Range(traceKeys) |-> [traceEvents |-> p]]
       /\ heap = [p \in Range(traceKeys) |-> OrigEvents(p, lens[p])]
  /\ audits \in {Null, "auditResults"}
  /\ entry = "none"
  /\ pc = "idle"
  /\ passNames = <<>>
  /\ assets = <<>>
  /\ next = 0
  /\ pending = {}
  /\ prepResult = Unsettled
  /\ failure = NoFailure
  /\ wpos = 0
  /\ disk \in {[p \in Paths |-> Absent], [p \in Paths |-> Stale]}
  /\ io = <<>>
  /\ calls = <<>>
  /\ returned = <<>>
  /\ synth = <<>>
  /\ orig = heap

\* ------------------------------------------------------- prepareAssets
\* Calling prepareAssets: Object.keys, the empty assets array, and the
\* reduce that builds the whole chain before any link of it runs.
Invoke(fn) ==
  /\ pc = "idle"
  /\ entry' = fn
  /\ passNames' = traceKeys
  /\ assets' = <<>>
  /\ next' = 0
  /\ pc' = "preparing"
  /\ orig' = heap
  /\ UNCHANGED <<traceKeys, traces, heap, audits, pending, prepResult,
                 failure, wpos, disk, io, calls, returned, synth>>

CallPrepareAssets == Invoke("prepareAssets")

CallSaveAssets == Invoke("saveAssets")

\* Every link asks as soon as it is built, as a forEach over the passes
\* would: nothing waits for the link before.
CanRequestEager ==
  /\ pc = "preparing"
  /\ next < Len(passNames)

\* A link's first callback runs when the chain before it has resolved, that
\* is, when the previous link's second callback has returned.
CanRequest ==
  /\ pc = "preparing"
  /\ pending = {}
  /\ next < Len(passNames)

\* chain.then(_ => artifacts.requestScreenshots(trace))
RequestScreenshots ==
  /\ CanRequest
  /\ calls' = Append(calls, passNames[next + 1])
  /\ pending' = pending \cup {next}
  /\ next' = next + 1
  /\ UNCHANGED <<traceKeys, traces, heap, audits, entry, pc, passNames,
                 assets, prepResult, failure, wpos, disk, io, returned,
                 synth, orig>>

\* The body of .then(screenshots => {...}) for link k, with the events
\* generateFakeEvents returned (used only when audits is given).
ThenScreenshots(k, screenshots, evts) ==
  LET passName == passNames[k + 1]
      trace == traces[passName]
      traceData == ObjectAssign(trace)
      html == screenshotDump(screenshots)
  IN /\ returned' = (passName :> screenshots) @@ returned
     /\ IF ShouldSynthesize(audits)
          THEN /\ synth' = Append(synth, [pass |-> passName, threw |-> FALSE,
                                          evts |-> evts])
               /\ heap' = ArrayPush(heap, traceData.traceEvents, evts)
          ELSE UNCHANGED <<synth, heap>>
     /\ assets' = PushAsset(assets, traceData, html)
     /\ pending' = pending \ {k}
     /\ UNCHANGED <<traceKeys, traces, audits, entry, pc, passNames, next,
                    prepResult, failure, wpos, disk, io, calls, orig>>

\* The retrieval of a pending link resolves and the link's second callback
\* runs to its end.
ScreenshotsResolved ==
  /\ pc = "preparing"
  /\ \E k \in pending, screenshots \in ScreenshotSeqs :
       \E evts \in IF ShouldSynthesize(audits) THEN FakeEventSeqs ELSE {<<>>} :
         ThenScreenshots(k, screenshots, evts)

\* The retrieval resolves and generateFakeEvents throws in the callback:
\* the chain rejects before anything is pushed.
SynthesisThrows ==
  /\ pc = "preparing"
  /\ ShouldSynthesize(audits)
  /\ GenerateFakeEventsCanThrow
  /\ \E k \in pending, screenshots \in ScreenshotSeqs :
       /\ returned' = (passNames[k + 1] :> screenshots) @@ returned
       /\ synth' = Append(synth, [pass |-> passNames[k + 1], threw |-> TRUE,
                                  evts |-> <<>>])
       /\ pending' = pending \ {k}
  /\ pc' = "rejected"
  /\ failure' = "generateFakeEvents"
  /\ prepResult' = Rejected
  /\ UNCHANGED <<traceKeys, traces, heap, audits, entry, passNames, assets,
                 next, wpos, disk, io, calls, orig>>

\* The failure is caught and the pass skipped: the chain goes on.
ScreenshotsRejectedSwallowed ==
  /\ pc = "preparing"
  /\ \E k \in pending : pending' = pending \ {k}
  /\ failure' = "requestScreenshots"
  /\ UNCHANGED <<traceKeys, traces, heap, audits, entry, pc, passNames,
                 assets, next, prepResult, wpos, disk, io, calls, returned,
                 synth, orig>>

\* requestScreenshots throws or its promise rejects: no callback of a
\* later link runs, the rejection reaches the returned promise.
ScreenshotsRejected ==
  /\ pc = "preparing"
  /\ \E k \in pending : pending' = pending \ {k}
  /\ pc' = "rejected"
  /\ failure' = "requestScreenshots"
  /\ prepResult' = Rejected
  /\ UNCHANGED <<traceKeys, traces, heap, audits, entry, passNames, assets,
                 next, wpos, disk, io, calls, returned, synth, orig>>

\* .then(_ => assets) hung on a link that is not the last: the promise
\* resolves once some link is through.
PrepareAssetsResolvesEarly ==
  /\ pc = "preparing"
  /\ pending = {}
  /\ prepResult' = Resolved(assets)
  /\ pc' = IF entry = "saveAssets" THEN "writing" ELSE "resolved"
  /\ UNCHANGED <<traceKeys, traces, heap, audits, entry, passNames, assets,
                 next, pending, failure, wpos, disk, io, calls, returned,
                 synth, orig>>

\* .then(_ => assets): the chain is through, prepareAssets resolves; under
\* saveAssets its .then(assets => ...) callback is entered.
PrepareAssetsResolves ==
  /\ pc = "preparing"
  /\ next = Len(passNames)
  /\ pending = {}
  /\ prepResult' = Resolved(assets)
  /\ pc' = IF entry = "saveAssets" THEN "writing" ELSE "resolved"
  /\ UNCHANGED <<traceKeys, traces, heap, audits, entry, passNames, assets,
                 next, pending, failure, wpos, disk, io, calls, returned,
                 synth, orig>>

\* --------------------------------------------------------- saveAssets
\* The forEach callback up to its first log.log, for the asset at index.
WriteTrace(index) ==
  LET data == prepResult.value[index + 1]
      traceData == data.traceData
      path == traceFilename(pathWithBasename, index)
  IN /\ disk' = WriteFileSync(disk, path, JSONStringify(heap, traceData))
     /\ io' = LogSaved(Append(io, WriteEvt(path)), path)

\* The rest of the forEach callback, for the asset at index.
WriteScreenshots(index) ==
  LET data == prepResult.value[index + 1]
      path == screenshotsFilename(pathWithBasename, index)
  IN /\ disk' = WriteFileSync(disk, path, data.html)
     /\ io' = LogSaved(Append(io, WriteEvt(path)), path)

\* forEach visits the assets by increasing index; wpos counts the writes
\* that returned, two per asset.
WritingTrace ==
  /\ pc = "writing"
  /\ wpos < 2 * Len(prepResult.value)
  /\ wpos % 2 = 0

WritingScreenshots ==
  /\ pc = "writing"
  /\ wpos < 2 * Len(prepResult.value)
  /\ wpos % 2 = 1

WriteTraceFile ==
  /\ WritingTrace
  /\ WriteTrace(wpos \div 2)
  /\ wpos' = wpos + 1
  /\ UNCHANGED <<traceKeys, traces, heap, audits, entry, pc, passNames,
                 assets, next, pending, prepResult, failure, calls, returned,
                 synth, orig>>

WriteScreenshotsFile ==
  /\ WritingScreenshots
  /\ WriteScreenshots(wpos \div 2)
  /\ wpos' = wpos + 1
  /\ UNCHANGED <<traceKeys, traces, heap, audits, entry, pc, passNames,
                 assets, next, pending, prepResult, failure, calls, returned,
                 synth, orig>>

\* The exception is caught inside the forEach callback: the loop goes on
\* to the next file and saveAssets resolves.
WriteThrowsIgnored(path) ==
  /\ io' = Append(io, WriteFailedEvt(path))
  /\ wpos' = wpos + 1
  /\ failure' = "writeFileSync"
  /\ UNCHANGED <<traceKeys, traces, heap, audits, entry, pc, passNames,
                 assets, next, pending, prepResult, disk, calls, returned,
                 synth, orig>>

\* fs.writeFileSync throws: the exception leaves forEach and the callback,
\* the promise saveAssets returned rejects; nothing is logged.
WriteThrows(path) ==
  /\ io' = Append(io, WriteFailedEvt(path))
  /\ pc' = "rejected"
  /\ failure' = "writeFileSync"
  /\ UNCHANGED <<traceKeys, traces, heap, audits, entry, passNames, assets,
                 next, pending, prepResult, wpos, disk, calls, returned,
                 synth, orig>>

WriteTraceFileThrows ==
  /\ WritingTrace
  /\ WriteThrows(traceFilename(pathWithBasename, wpos \div 2))

WriteScreenshotsFileThrows ==
  /\ WritingScreenshots
  /\ WriteThrows(screenshotsFilename(pathWithBasename, wpos \div 2))

\* forEach is through: the callback returns and saveAssets resolves.
SaveAssetsResolves ==
  /\ pc = "writing"
  /\ wpos = 2 * Len(prepResult.value)
  /\ pc' = "resolved"
  /\ UNCHANGED <<traceKeys, traces, heap, audits, entry, passNames, assets,
                 next, pending, prepResult, failure, wpos, disk, io, calls,
                 returned, synth, orig>>

Next ==
  \/ CallPrepareAssets
  \/ CallSaveAssets
  \/ RequestScreenshots
  \/ ScreenshotsResolved
  \/ SynthesisThrows
  \/ ScreenshotsRejected
  \/ PrepareAssetsResolves
  \/ WriteTraceFile
  \/ WriteTraceFileThrows
  \/ WriteScreenshotsFile
  \/ WriteScreenshotsFileThrows
  \/ SaveAssetsResolves

Spec == Init /\ [][Next]_vars

\* ================================================================ claims
NumPasses == Len(traceKeys)

\* The assets a resolved prepareAssets hands over: one per pass, the i-th
\* from the i-th key of artifacts.traces and from the screenshots returned
\* for that pass.
AssetsMatchPasses ==
  prepResult.state = "resolved" =>
    /\ Len(prepResult.value) = NumPasses
    /\ \A i \in 1..NumPasses :
         /\ traceKeys[i] \in DOMAIN returned
         /\ prepResult.value[i].traceData = ObjectAssign(traces[traceKeys[i]])
         /\ prepResult.value[i].html = screenshotDump(returned[traceKeys[i]])

AllRetrievalsSucceeded ==
  /\ pc # "idle"
  /\ DOMAIN returned = Range(traceKeys)
  /\ failure # "requestScreenshots"

\* C1 as stated: whenever the screenshot retrievals of all N passes have
\* succeeded and prepareAssets has settled, it has resolved, with N assets
\* that match the passes index for index.
C1_ResolvesWhenRetrievalsSucceed ==
  /\ AssetsMatchPasses
  /\ (AllRetrievalsSucceeded /\ prepResult.state # "pending")
       => prepResult.state = "resolved"

\* C1 amended: whenever the retrievals of all N passes have succeeded, no
\* generateFakeEvents call has thrown and prepareAssets has settled, it has
\* resolved, with N assets that match the passes index for index; and it
\* rejects only after a retrieval or a generateFakeEvents call failed.
C1_ResolvesWhenNoCollaboratorFails ==
  /\ AssetsMatchPasses
  /\ (AllRetrievalsSucceeded /\ failure # "generateFakeEvents"
        /\ prepResult.state # "pending")
       => prepResult.state = "resolved"
  /\ prepResult.state = "rejected"
       => failure \in {"requestScreenshots", "generateFakeEvents"}

C1_Witness ==
  /\ prepResult.state = "resolved"
  /\ NumPasses = 2
  /\ audits # Null
  /\ returned[traceKeys[1]] # returned[traceKeys[2]]

\* C2: the arrays the caller's traces refer to, and the traces themselves,
\* are what they were when prepareAssets was called.
C2_OriginalTracesUntouched ==
  /\ heap = orig
  /\ \A p \in DOMAIN traces : traces[p] = [traceEvents |-> p]

IsPrefix(s, t) == Len(s) <= Len(t) /\ s = SubSeq(t, 1, Len(s))

\* C3: requestScreenshots is called for the passes in key order, each once;
\* at most one retrieval is in flight; the retrieval for pass k starts only
\* when the k assets of the passes before it are accumulated; a resolved
\* prepareAssets has called it for every pass.
C3_RetrievalsAreSequential ==
  /\ Cardinality(pending) <= 1
  /\ pc # "idle" => IsPrefix(calls, passNames)
  /\ Len(calls) <= Len(assets) + 1
  /\ \A k \in pending : Len(assets) = k /\ Len(calls) = k + 1
  /\ prepResult.state = "resolved" => calls = passNames

C3_Witness ==
  /\ pending = {1}
  /\ Len(assets) = 1
  /\ calls = passNames
  /\ Len(passNames) = 2

\* C4: once the retrieval of pass k has failed, the promise is rejected with
\* that failure and carries no assets, requestScreenshots was called for
\* the passes up to k only, generateFakeEvents ran for passes before k only,
\* and no later step calls either again or changes the outcome.
C4_RetrievalFailureState ==
  failure = "requestScreenshots" =>
    /\ pc = "rejected"
    /\ prepResult = Rejected
    /\ pending = {}
    /\ Len(calls) = Len(assets) + 1
    /\ IsPrefix(calls, passNames)
    /\ \A j \in 1..Len(synth) :
         \E i \in 1..Len(assets) : synth[j].pass = passNames[i]

C4_RetrievalFailureAborts ==
  /\ []C4_RetrievalFailureState
  /\ [][failure = "requestScreenshots" =>
          /\ failure' = failure
          /\ UNCHANGED <<calls, synth, prepResult, pc, assets>>]_vars

C4_Witness ==
  /\ failure = "requestScreenshots"
  /\ Len(assets) = 1
  /\ Len(passNames) = 2
  /\ audits # Null

\* ------------------------------------------------- claims on saveAssets
IsWrite(e) == e.op = "write"
IsLog(e) == e.op = "log"
IsAttempt(e) == e.op \in {"write", "writeFailed"}

Writes == SelectSeq(io, IsWrite)
Logs == SelectSeq(io, IsLog)
Attempts == SelectSeq(io, IsAttempt)

\* The paths of a run over n assets without failure, in order.
ExpectedPaths(n) ==
  [k \in 1..(2 * n) |->
     IF k % 2 = 1 THEN <<pathWithBasename, (k - 1) \div 2, ".trace.json">>
     ELSE <<pathWithBasename, (k - 1) \div 2, ".screenshots.html">>]

\* What the k-th file of the run holds: the trace of asset (k-1) div 2 with
\* the events its array has, or that asset's filmstrip document.
ExpectedContent(k) ==
  LET data == prepResult.value[((k - 1) \div 2) + 1]
  IN IF k % 2 = 1
       THEN [kind |-> "json", traceEvents |-> heap[data.traceData.traceEvents]]
       ELSE data.html

TracePath(i) == <<pathWithBasename, i, ".trace.json">>

TraceWritten(i) == \E k \in 1..Len(io) : io[k] = WriteEvt(TracePath(i))

\* C5: without audits generateFakeEvents is never called, and every trace
\* file written holds exactly the events the pass's trace had at the call.
C5_NoAuditsNoSynthesis ==
  audits = Null =>
    /\ synth = <<>>
    /\ \A i \in 0..(NumPasses - 1) :
         TraceWritten(i) =>
           disk[TracePath(i)] =
             [kind |-> "json", traceEvents |-> orig[traceKeys[i + 1]]]

C5_Witness ==
  /\ audits = Null
  /\ entry = "saveAssets"
  /\ pc = "resolved"
  /\ NumPasses = 2
  /\ \E p \in DOMAIN orig : orig[p] # <<>>

C7_WritesInIndexOrder ==
  /\ \A k \in 1..Len(Attempts) :
       /\ k <= 2 * NumPasses
       /\ Attempts[k].path = ExpectedPaths(NumPasses)[k]
  /\ (entry = "saveAssets" /\ pc = "resolved") =>
       /\ Len(Writes) = 2 * NumPasses
       /\ Len(Attempts) = 2 * NumPasses
       /\ \A k \in 1..(2 * NumPasses) :
            disk[ExpectedPaths(NumPasses)[k]] = ExpectedContent(k)
       /\ \A p \in Paths :
            p[2] >= NumPasses => disk[p] \in {Absent, Stale}

C7_Witness ==
  /\ entry = "saveAssets"
  /\ pc = "resolved"
  /\ NumPasses = 2
  /\ Len(Writes) = 4
  /\ disk[TracePath(2)] = Stale

\* C8: once a write has failed, saveAssets is rejected with that failure,
\* the failed write is the last one attempted, every file written before it
\* holds what was written, and no later step writes, logs or changes the
\* disk.
C8_WriteFailureState ==
  failure = "writeFileSync" =>
    /\ pc = "rejected"
    /\ io[Len(io)].op = "writeFailed"
    /\ Len(Attempts) = wpos + 1
    /\ Len(Writes) = wpos
    /\ \A k \in 1..wpos :
         disk[ExpectedPaths(NumPasses)[k]] = ExpectedContent(k)

C8_WriteFailureAborts ==
  /\ []C8_WriteFailureState
  /\ [][failure = "writeFileSync" =>
          /\ failure' = failure
          /\ UNCHANGED <<io, disk, pc>>]_vars

C8_Witness ==
  /\ failure = "writeFileSync"
  /\ wpos = 3
  /\ disk[TracePath(0)] # Stale
  /\ disk[TracePath(2)] = Stale

C10_NoWriteBeforeAllPrepared ==
  /\ io # <<>> =>
       /\ prepResult.state = "resolved"
       /\ pending = {}
       /\ calls = passNames
       /\ DOMAIN returned = Range(passNames)
       /\ Len(assets) = NumPasses
  /\ failure \in {"requestScreenshots", "generateFakeEvents"} =>
       /\ io = <<>>
       /\ \A p \in Paths : disk[p] \in {Absent, Stale}

C10_Witness ==
  /\ entry = "saveAssets"
  /\ failure = "requestScreenshots"
  /\ NumPasses = 2
  /\ Len(assets) = 1
  /\ io = <<>>

====
